---- MODULE Spec2Model ----
(***************************************************************************)
(* Model of the USGS data-retrieval function-calling wrapper               *)
(* (manual_mcp_dataretrieval.py): the dispatch table, the catalog, the     *)
(* thirteen operations with their parameter checks, the column clean-up    *)
(* applied to every table and the response envelope.                       *)
(*                                                                         *)
(* Python strings are sequences of one-character strings, so that          *)
(* str.split(",") is computed and not assumed.  A parameter value is a     *)
(* tagged record: None, a str or a list of str.  A DataFrame is a record   *)
(* of its column labels and its rows.  A message is the sequence of the    *)
(* pieces the f-string concatenates.                                       *)
(***************************************************************************)
EXTENDS Integers, Sequences, FiniteSets, TLC

\* ---------------------------------------------------------------- bounds
\* the largest number of cells of a table the service returns
MaxCells == 4

\* ------------------------------------------------------- python values
None == [t |-> "none", s |-> <<>>, l |-> <<>>]
Str(cs) == [t |-> "str", s |-> cs, l |-> <<>>]
List(xs) == [t |-> "list", s |-> <<>>, l |-> xs]

\* bool(v): None, "" and [] are falsy
Truthy(v) == CASE v.t = "none" -> FALSE
               [] v.t = "str" -> v.s # <<>>
               [] OTHER -> v.l # <<>>

\* dict.get(key) and dict.get(key, default)
GetOr(p, k, d) == IF k \in DOMAIN p THEN p[k] ELSE d
Get(p, k) == GetOr(p, k, None)

RECURSIVE SplitFrom(_, _, _)
\* str.split(","): cs is the text, i the next position, cur the piece so far
SplitFrom(cs, i, cur) ==
    IF i > Len(cs) THEN <<cur>>
    ELSE IF cs[i] = "," THEN <<cur>> \o SplitFrom(cs, i + 1, <<>>)
    ELSE SplitFrom(cs, i + 1, Append(cur, cs[i]))

Split(cs) == SplitFrom(cs, 1, <<>>)

RECURSIVE JoinWith(_, _)
\* sep.join(xs) for a sequence of token sequences
JoinWith(xs, sep) ==
    IF xs = <<>> THEN <<>>
    ELSE IF Len(xs) = 1 THEN xs[1]
    ELSE xs[1] \o <<sep>> \o JoinWith(Tail(xs), sep)

\* str(v) as the f-string renders it
Render(v) == CASE v.t = "none" -> <<"None">>
               [] v.t = "str" -> v.s
               [] OTHER -> <<"[">> \o JoinWith([i \in 1..Len(v.l) |-> <<"'">> \o v.l[i] \o <<"'">>], ", ") \o <<"]">>

\* ------------------------------------------------------------ DataFrame
NaN == "NaN"
Sentinel == "-"
Cells == {NaN, Sentinel, "x"}
ColNames == {"state_cd", "county_cd", "value"}

NRows(df) == Len(df.values)
NCols(df) == Len(df.columns)

\* DataFrame.empty: any axis of length 0
IsEmpty(df) == NRows(df) = 0 \/ NCols(df) = 0

\* df.loc[:, keep]: the columns at the positions in keep, in order
RECURSIVE KeptIdx(_, _, _)
KeptIdx(n, keep, i) ==
    IF i > n THEN <<>>
    ELSE IF i \in keep THEN <<i>> \o KeptIdx(n, keep, i + 1)
    ELSE KeptIdx(n, keep, i + 1)

\* a selection that lists the kept labels in reverse
SelectCols_reversed(df, keep) ==
    LET idx == KeptIdx(NCols(df), keep, 1)
    IN [columns |-> [j \in 1..Len(idx) |-> df.columns[idx[Len(idx) + 1 - j]]],
        values |-> [i \in 1..NRows(df) |-> [j \in 1..Len(idx) |-> df.values[i][idx[j]]]]]

SelectCols(df, keep) ==
    LET idx == KeptIdx(NCols(df), keep, 1)
    IN [columns |-> [j \in 1..Len(idx) |-> df.columns[idx[j]]],
        values |-> [i \in 1..NRows(df) |-> [j \in 1..Len(idx) |-> df.values[i][idx[j]]]]]

\* dropna along the other axis: keep a row iff some value is not missing
dropna_all_rows(df) ==
    LET HasValue(row) == \E j \in 1..Len(row) : row[j] # NaN
    IN [columns |-> df.columns, values |-> SelectSeq(df.values, HasValue)]

\* df.dropna(axis=1, how='all'): keep a column iff some value is not missing
dropna_all(df) ==
    SelectCols(df, {j \in 1..NCols(df) : \E i \in 1..NRows(df) : df.values[i][j] # NaN})

\* a sentinel step that takes a missing value for the sentinel
drop_sentinel_nan_as_sentinel(df) ==
    SelectCols(df, {j \in 1..NCols(df) :
                      \E i \in 1..NRows(df) : df.values[i][j] \notin {Sentinel, NaN}})

\* the sentinel step left out
drop_sentinel_skip(df) == df

\* df.loc[:, (df != '-').any(axis=0)]: keep a column iff some value differs
\* from '-' (a missing value differs from '-')
drop_sentinel(df) ==
    SelectCols(df, {j \in 1..NCols(df) : \E i \in 1..NRows(df) : df.values[i][j] # Sentinel})

\* df.drop(labels, axis=1, errors='ignore')
drop_labels(df, labels) ==
    SelectCols(df, {j \in 1..NCols(df) : df.columns[j] \notin labels})

sanitize(df) == drop_sentinel(dropna_all(df))

\* ------------------------------------------------------------- envelope
\* an optional argument: Nothing is Python's None default, Some(x) a value
Nothing == <<>>
Some(x) == <<x>>

\* a response that always carries a data key
format_response_always_data(status, column_names, data, message) ==
    [status |-> status,
     keys |-> {"status", "data"}
              \cup (IF Len(column_names) > 0 THEN {"column_names"} ELSE {})
              \cup (IF Len(message) > 0 THEN {"message"} ELSE {}),
     column_names |-> IF Len(column_names) > 0 THEN column_names[1] ELSE <<>>,
     data |-> IF Len(data) > 0 THEN data[1] ELSE <<>>,
     message |-> IF Len(message) > 0 THEN message[1] ELSE <<>>]

\* _format_response: a key is present only when its argument is not None
format_response(status, column_names, data, message) ==
    [status |-> status,
     keys |-> {"status"}
              \cup (IF Len(data) > 0 THEN {"data"} ELSE {})
              \cup (IF Len(column_names) > 0 THEN {"column_names"} ELSE {})
              \cup (IF Len(message) > 0 THEN {"message"} ELSE {}),
     column_names |-> IF Len(column_names) > 0 THEN column_names[1] ELSE <<>>,
     data |-> IF Len(data) > 0 THEN data[1] ELSE <<>>,
     message |-> IF Len(message) > 0 THEN message[1] ELSE <<>>]

\* self._format_response("error", message=...)
ErrorResponse(message) == format_response("error", Nothing, Nothing, Some(message))

\* column_names = df.columns.tolist(); data_values = df.values.tolist();
\* self._format_response("success", column_names=..., data=..., message=...)
SuccessResponse(df, message) ==
    format_response("success", Some(df.columns), Some(df.values), Some(message))

\* ------------------------------------------------ external data service
ErrTexts == {"HTTP 400", "timed out"}
EmptyDF == [columns |-> <<>>, values |-> <<>>]

\* the rows of a table with nc columns
RowsOf(nc) == [1..nc -> Cells]

\* the column labels of a table: distinct, in any order
Labels(nc) == {cs \in [1..nc -> ColNames] : \A i, j \in 1..nc : cs[i] = cs[j] => i = j}

\* the tables of at most MaxCells cells, tables without rows or without
\* columns included
Shapes ==
    {sh \in (0..MaxCells) \X (0..Cardinality(ColNames)) : sh[1] * sh[2] <= MaxCells}

Tables ==
    UNION {{[columns |-> cs, values |-> vs] : cs \in Labels(sh[2]), vs \in [1..sh[1] -> RowsOf(sh[2])]}
           : sh \in Shapes}

\* the service either returns a table or raises
Outcomes ==
    {[kind |-> "table", table |-> t, err |-> ""] : t \in Tables}
    \cup {[kind |-> "raise", table |-> EmptyDF, err |-> e] : e \in ErrTexts}

\* one invocation of a dataretrieval.nwis function with its keyword arguments
SvcCall(fn, kwargs) == [fn |-> fn, kwargs |-> kwargs]

\* what an operation hands back to call_function: an envelope, or an
\* exception that left the operation
Returned(env, calls) == [ret |-> env, raised |-> FALSE, exc |-> "", svc |-> calls]
Raised(text, calls) == [ret |-> format_response("", Nothing, Nothing, Nothing), raised |-> TRUE, exc |-> text, svc |-> calls]

\* a handler that reports a fixed text in place of str(e)
ExceptHandler_generic(prefix, text, calls) ==
    Returned(ErrorResponse(prefix \o <<"request failed">>), calls)

\* except Exception as e: return self._format_response("error", message=prefix + str(e))
ExceptHandler(prefix, text, calls) == Returned(ErrorResponse(prefix \o <<text>>), calls)

\* the service call outside any try block: the exception leaves the operation
TryExcept_uncaught(out, calls, onTable, prefix) ==
    IF out.kind = "raise" THEN Raised(out.err, calls) ELSE Returned(onTable, calls)

\* try: <the service call, then onTable> except Exception as e: <handler>
TryExcept(out, calls, onTable, prefix) ==
    IF out.kind = "raise"
    THEN ExceptHandler(prefix, out.err, calls)
    ELSE Returned(onTable, calls)

\* f"{len(data_values)}"
NumTok(n) == <<ToString(n)>>

\* the text "site" as a str value
SiteService == Str(<<"s", "i", "t", "e">>)
BaseFileType == Str(<<"b", "a", "s", "e">>)

\* ----------------------------------------------------------- operations
\* the emptiness test left out
checked_result_always_success(df, okMsg, emptyMsg) == SuccessResponse(df, okMsg)

\* the emptiness test inverted
checked_result_inverted(df, okMsg, emptyMsg) ==
    IF IsEmpty(df) THEN SuccessResponse(df, okMsg) ELSE ErrorResponse(emptyMsg)

\* the three operations that test the cleaned table for emptiness
checked_result(df, okMsg, emptyMsg) ==
    IF ~IsEmpty(df) THEN SuccessResponse(df, okMsg) ELSE ErrorResponse(emptyMsg)

\* site lookup whose messages leave out the site code
get_site_data_anon(params, out) ==
    LET site_code == Get(params, "site_code")
        calls == <<SvcCall("get_record", [sites |-> site_code, service |-> SiteService])>>
    IN IF ~Truthy(site_code)
       THEN Returned(ErrorResponse(<<"Site code is required">>), <<>>)
       ELSE TryExcept(out, calls,
                checked_result(sanitize(out.table),
                    <<"Successfully retrieved data for site ">>,
                    <<"No data found for site ">>),
                <<"Error retrieving site data: ">>)

\* site lookup without its check of site_code
get_site_data_unchecked(params, out) ==
    LET site_code == Get(params, "site_code")
        calls == <<SvcCall("get_record", [sites |-> site_code, service |-> SiteService])>>
    IN TryExcept(out, calls,
            checked_result(sanitize(out.table),
                <<"Successfully retrieved data for site ">> \o Render(site_code),
                <<"No data found for site ">> \o Render(site_code)),
            <<"Error retrieving site data: ">>)

get_site_data(params, out) ==
    LET site_code == Get(params, "site_code")
        calls == <<SvcCall("get_record", [sites |-> site_code, service |-> SiteService])>>
    IN IF ~Truthy(site_code)
       THEN Returned(ErrorResponse(<<"Site code is required">>), <<>>)
       ELSE TryExcept(out, calls,
                checked_result(sanitize(out.table),
                    <<"Successfully retrieved data for site ">> \o Render(site_code),
                    <<"No data found for site ">> \o Render(site_code)),
                <<"Error retrieving site data: ">>)

get_daily_values(params, out) ==
    LET site_code == Get(params, "site_code")
        calls == <<SvcCall("get_dv", [sites |-> site_code,
                                      parameterCd |-> Get(params, "parameter_code"),
                                      statCd |-> Get(params, "statCd"),
                                      start |-> Get(params, "start_date"),
                                      end |-> Get(params, "end_date")])>>
    IN IF ~Truthy(site_code)
       THEN Returned(ErrorResponse(<<"site_code is required">>), <<>>)
       ELSE TryExcept(out, calls,
                checked_result(sanitize(out.table),
                    <<"Successfully retrieved daily values for site ">> \o Render(site_code),
                    <<"No daily values found for the specified parameters">>),
                <<"Error retrieving daily values: ">>)

get_instantaneous_values(params, out) ==
    LET site_code == Get(params, "site_code")
        parameter_code == Get(params, "parameter_code")
        calls == <<SvcCall("get_iv", [sites |-> site_code,
                                      parameterCd |-> parameter_code,
                                      start |-> Get(params, "start_date"),
                                      end |-> Get(params, "end_date")])>>
    IN IF ~(Truthy(site_code) /\ Truthy(parameter_code))
       THEN Returned(ErrorResponse(<<"site_code and parameter_code are both required">>), <<>>)
       ELSE TryExcept(out, calls,
                checked_result(sanitize(out.table),
                    <<"Successfully retrieved instantaneous values for site ">> \o Render(site_code),
                    <<"No instantaneous values found for the specified parameters">>),
                <<"Error retrieving instantaneous values: ">>)

\* the sites value handed on as it came
split_sites_raw(params) == Get(params, "sites")

\* sites = params.get("sites"); if isinstance(sites, str): sites = sites.split(",")
split_sites(params) ==
    LET sites == Get(params, "sites")
    IN IF sites.t = "str" THEN List(Split(sites.s)) ELSE sites

\* a body that tests the presence of sites before the split
sites_operation_check_first(params, out, fn, noun) ==
    LET sites == split_sites(params)
        calls == <<SvcCall(fn, [sites |-> sites,
                                start |-> Get(params, "start"),
                                end |-> Get(params, "end")])>>
        df == sanitize(out.table)
    IN IF ~Truthy(Get(params, "sites"))
       THEN Returned(ErrorResponse(<<"Sites parameter is required">>), <<>>)
       ELSE TryExcept(out, calls,
                SuccessResponse(df, <<"Retrieved ">> \o NumTok(NRows(df)) \o <<noun>>),
                <<>>)

\* the shared body of discharge measurements, discharge peaks and
\* groundwater levels: fn is the service function, noun ends the message
sites_operation(params, out, fn, noun) ==
    LET sites == split_sites(params)
        calls == <<SvcCall(fn, [sites |-> sites,
                                start |-> Get(params, "start"),
                                end |-> Get(params, "end")])>>
        df == sanitize(out.table)
    IN IF ~Truthy(sites)
       THEN Returned(ErrorResponse(<<"Sites parameter is required">>), <<>>)
       ELSE TryExcept(out, calls,
                SuccessResponse(df, <<"Retrieved ">> \o NumTok(NRows(df)) \o <<noun>>),
                <<>>)

get_discharge_measurements(params, out) ==
    sites_operation(params, out, "get_discharge_measurements", " discharge measurements")

get_discharge_peaks(params, out) ==
    sites_operation(params, out, "get_discharge_peaks", " discharge peaks")

get_gwlevels(params, out) ==
    sites_operation(params, out, "get_gwlevels", " groundwater level records")

InfoFilters == {"stateCd", "huc", "bBox", "countyCd", "startDt", "endDt", "period",
                "modifiedSince", "parameterCd", "siteType"}

get_info(params, out) ==
    LET sites == split_sites(params)
        df == sanitize(out.table)
    IN IF ~(Truthy(sites) \/ \E k \in InfoFilters : Truthy(Get(params, k)))
       THEN Returned(ErrorResponse(<<"At least one of the parameters is required">>), <<>>)
       ELSE TryExcept(out, <<SvcCall("get_info", params)>>,
                SuccessResponse(df, <<"Retrieved site information">>),
                <<>>)

get_pmcodes(params, out) ==
    LET parameterCd == Get(params, "parameterCd")
        df == sanitize(out.table)
    IN IF ~Truthy(parameterCd)
       THEN Returned(ErrorResponse(<<"Parameter code is required">>), <<>>)
       ELSE TryExcept(out, <<SvcCall("get_pmcodes", [parameterCd |-> parameterCd])>>,
                SuccessResponse(df, <<"Retrieved ">> \o NumTok(NRows(df)) \o <<" parameter codes">>),
                <<>>)

\* rating table that takes a falsy file_type for an absent one
get_ratings_or_base(params, out) ==
    LET site == Get(params, "site")
        given == Get(params, "file_type")
        file_type == IF Truthy(given) THEN given ELSE BaseFileType
        df == sanitize(out.table)
    IN IF ~Truthy(site)
       THEN Returned(ErrorResponse(<<"Site parameter is required">>), <<>>)
       ELSE TryExcept(out, <<SvcCall("get_ratings", [site |-> site, file_type |-> file_type])>>,
                SuccessResponse(df, <<"Retrieved ">> \o NumTok(NRows(df))
                                     \o <<" rating records for site ">> \o Render(site)),
                <<>>)

get_ratings(params, out) ==
    LET site == Get(params, "site")
        file_type == GetOr(params, "file_type", BaseFileType)
        df == sanitize(out.table)
    IN IF ~Truthy(site)
       THEN Returned(ErrorResponse(<<"Site parameter is required">>), <<>>)
       ELSE TryExcept(out, <<SvcCall("get_ratings", [site |-> site, file_type |-> file_type])>>,
                SuccessResponse(df, <<"Retrieved ">> \o NumTok(NRows(df))
                                     \o <<" rating records for site ">> \o Render(site)),
                <<>>)

get_record(params, out) ==
    LET df == sanitize(out.table)
    IN TryExcept(out, <<SvcCall("get_record", params)>>,
            SuccessResponse(df, <<"Retrieved ">> \o NumTok(NRows(df)) \o <<" records">>),
            <<>>)

get_stats(params, out) ==
    LET df == sanitize(out.table)
    IN TryExcept(out, <<SvcCall("get_stats", params)>>,
            SuccessResponse(df, <<"Retrieved statistical data">>),
            <<>>)

\* water use that leaves the two internal columns in the table
get_water_use_undropped(params, out) ==
    LET years0 == Get(params, "years")
        years == IF Truthy(years0) /\ years0.t = "str" THEN List(Split(years0.s)) ELSE years0
        df == sanitize(out.table)
    IN IF ~(Truthy(years) \/ Truthy(Get(params, "state"))
            \/ Truthy(Get(params, "counties")) \/ Truthy(Get(params, "categories")))
       THEN Returned(ErrorResponse(<<"At least one of the parameters is required">>), <<>>)
       ELSE TryExcept(out, <<SvcCall("get_water_use", params)>>,
                SuccessResponse(df, <<"Retrieved water use data">>),
                <<>>)

get_water_use(params, out) ==
    LET years0 == Get(params, "years")
        years == IF Truthy(years0) /\ years0.t = "str" THEN List(Split(years0.s)) ELSE years0
        df == sanitize(drop_labels(out.table, {"state_cd", "county_cd"}))
    IN IF ~(Truthy(years) \/ Truthy(Get(params, "state"))
            \/ Truthy(Get(params, "counties")) \/ Truthy(Get(params, "categories")))
       THEN Returned(ErrorResponse(<<"At least one of the parameters is required">>), <<>>)
       ELSE TryExcept(out, <<SvcCall("get_water_use", params)>>,
                SuccessResponse(df, <<"Retrieved water use data">>),
                <<>>)

\* site search that hands on only the filters with a truthy value
what_sites_truthy_only(params, out) ==
    LET df == sanitize(out.table)
        given == [k \in {k \in DOMAIN params : Truthy(params[k])} |-> params[k]]
    IN TryExcept(out, <<SvcCall("what_sites", given)>>,
            SuccessResponse(df, <<"Found ">> \o NumTok(NRows(df)) \o <<" sites matching the criteria">>),
            <<>>)

what_sites(params, out) ==
    LET df == sanitize(out.table)
    IN TryExcept(out, <<SvcCall("what_sites", params)>>,
            SuccessResponse(df, <<"Found ">> \o NumTok(NRows(df)) \o <<" sites matching the criteria">>),
            <<>>)

\* ------------------------------------------------- catalog and dispatch
\* self.functions as built by __init__: name -> bound method, in insertion order
InitFunctions ==
    <<[name |-> "get_site_data", method |-> "get_site_data"],
      [name |-> "get_daily_values", method |-> "get_daily_values"],
      [name |-> "get_instantaneous_values", method |-> "get_instantaneous_values"],
      [name |-> "get_discharge_measurements", method |-> "get_discharge_measurements"],
      [name |-> "get_discharge_peaks", method |-> "get_discharge_peaks"],
      [name |-> "get_gwlevels", method |-> "get_gwlevels"],
      [name |-> "get_info", method |-> "get_info"],
      [name |-> "get_pmcodes", method |-> "get_pmcodes"],
      [name |-> "get_ratings", method |-> "get_ratings"],
      [name |-> "get_record", method |-> "get_record"],
      [name |-> "get_stats", method |-> "get_stats"],
      [name |-> "get_water_use", method |-> "get_water_use"],
      [name |-> "what_sites", method |-> "what_sites"]>>

\* the descriptors returned by get_mcp_functions: name, properties, required
get_mcp_functions ==
    <<[name |-> "get_site_data", properties |-> {"site_code"}, required |-> <<"site_code">>],
      [name |-> "get_daily_values",
       properties |-> {"site_code", "parameter_code", "statCd", "start_date", "end_date"},
       required |-> <<"site_code">>],
      [name |-> "get_instantaneous_values",
       properties |-> {"site_code", "parameter_code", "start_date", "end_date"},
       required |-> <<"site_code", "parameter_code">>],
      [name |-> "get_discharge_measurements", properties |-> {"sites", "start", "end"},
       required |-> <<"sites">>],
      [name |-> "get_discharge_peaks", properties |-> {"sites", "start", "end"},
       required |-> <<"sites">>],
      [name |-> "get_gwlevels", properties |-> {"sites", "start", "end"},
       required |-> <<"sites">>],
      [name |-> "get_ratings", properties |-> {"site", "file_type"}, required |-> <<"site">>],
      [name |-> "what_sites", properties |-> {"stateCd", "siteType", "county", "huc"},
       required |-> <<>>],
      [name |-> "get_stats",
       properties |-> {"sites", "parameterCd", "statReportType", "statTypeCd"},
       required |-> <<>>],
      [name |-> "get_info",
       properties |-> {"sites", "stateCd", "huc", "bBox", "countyCd", "startDt", "endDt",
                       "period", "modifiedSince", "parameterCd", "siteType", "siteOutput",
                       "seriesCatalogOutput"},
       required |-> <<>>],
      [name |-> "get_pmcodes", properties |-> {"parameterCd"}, required |-> <<>>],
      [name |-> "get_water_use", properties |-> {"years", "state", "counties", "categories"},
       required |-> <<>>]>>

\* self.functions.keys()
Keys(fns) == [i \in 1..Len(fns) |-> fns[i].name]
KeySet(fns) == {fns[i].name : i \in 1..Len(fns)}

\* self.functions[function_name]
Lookup(fns, function_name) ==
    fns[CHOOSE i \in 1..Len(fns) : fns[i].name = function_name].method

\* the bound method applied to params; out is what the service does if called
Invoke(method, params, out) ==
    CASE method = "get_site_data" -> get_site_data(params, out)
      [] method = "get_daily_values" -> get_daily_values(params, out)
      [] method = "get_instantaneous_values" -> get_instantaneous_values(params, out)
      [] method = "get_discharge_measurements" -> get_discharge_measurements(params, out)
      [] method = "get_discharge_peaks" -> get_discharge_peaks(params, out)
      [] method = "get_gwlevels" -> get_gwlevels(params, out)
      [] method = "get_info" -> get_info(params, out)
      [] method = "get_pmcodes" -> get_pmcodes(params, out)
      [] method = "get_ratings" -> get_ratings(params, out)
      [] method = "get_record" -> get_record(params, out)
      [] method = "get_stats" -> get_stats(params, out)
      [] method = "get_water_use" -> get_water_use(params, out)
      [] OTHER -> what_sites(params, out)

\* a dispatcher that hands an unknown name to the site search
call_function_fallthrough(fns, function_name, params, out) ==
    IF function_name \in KeySet(fns)
    THEN [run |-> Invoke(Lookup(fns, function_name), params, out),
          ops |-> <<Lookup(fns, function_name)>>]
    ELSE [run |-> what_sites(params, out), ops |-> <<"what_sites">>]

\* a dispatcher that adds the function name to the envelope it returns
call_function_wrapped(fns, function_name, params, out) ==
    IF function_name \in KeySet(fns)
    THEN LET r == Invoke(Lookup(fns, function_name), params, out)
         IN [run |-> [r EXCEPT !.ret.keys = @ \cup {"function"}],
             ops |-> <<Lookup(fns, function_name)>>]
    ELSE [run |-> Returned(ErrorResponse(
                      <<"Function '", function_name, "' not found. Available functions: ">>
                      \o JoinWith([i \in 1..Len(fns) |-> <<Keys(fns)[i]>>], ", ")), <<>>),
          ops |-> <<>>]

\* the result of call_function together with the operations it invoked
call_function(fns, function_name, params, out) ==
    IF function_name \in KeySet(fns)
    THEN [run |-> Invoke(Lookup(fns, function_name), params, out),
          ops |-> <<Lookup(fns, function_name)>>]
    ELSE [run |-> Returned(ErrorResponse(
                      <<"Function '", function_name, "' not found. Available functions: ">>
                      \o JoinWith([i \in 1..Len(fns) |-> <<Keys(fns)[i]>>], ", ")), <<>>),
          ops |-> <<>>]

\* ------------------------------------------------------- caller inputs
SitesVals == {None, Str(<<>>), Str(<<"A">>), Str(<<"A", ",", "B">>), List(<<>>), List(<<<<"A">>>>)}
YearsVals == {None, Str(<<>>), Str(<<"2", ",", "3">>), List(<<<<"2">>>>)}
ScalarVals == {None, Str(<<>>), Str(<<"A">>)}
OptVals == {Str(<<>>), Str(<<"P">>)}
FlagVals == {Str(<<"P">>)}

\* the values a caller may give to a key
ValsOf(k) ==
    CASE k = "sites" -> SitesVals
      [] k = "years" -> YearsVals
      [] k = "site_code" -> ScalarVals
      [] k = "site" -> ScalarVals \cup {Str(<<"A", ",", "B">>)}
      [] k \in {"parameter_code", "parameterCd", "stateCd", "state", "file_type"} -> OptVals
      [] OTHER -> FlagVals

\* the keys a caller may give to a function
KeysOf(fn) ==
    CASE fn = "get_site_data" -> {"site_code"}
      [] fn \in {"get_daily_values", "get_instantaneous_values"} -> {"site_code", "parameter_code"}
      [] fn \in {"get_discharge_measurements", "get_discharge_peaks", "get_gwlevels"} -> {"sites"}
      [] fn = "get_info" -> {"sites", "stateCd"}
      [] fn = "get_pmcodes" -> {"parameterCd"}
      [] fn = "get_ratings" -> {"site", "file_type"}
      [] fn = "get_record" -> {"service", "site_no"}
      [] fn = "get_stats" -> {"sites"}
      [] fn = "get_water_use" -> {"years", "state", "counties"}
      [] fn = "what_sites" -> {"stateCd", "siteType"}
      [] OTHER -> {"site_code"}

AllVals == SitesVals \cup YearsVals \cup ScalarVals \cup OptVals \cup FlagVals

\* the parameter mappings a caller may pass to fn
ParamsOf(fn) ==
    UNION {{p \in [D -> AllVals] : \A k \in D : p[k] \in ValsOf(k)} : D \in SUBSET KeysOf(fn)}

UnknownNames == {"get_streamflow", "get_sites"}

\* ------------------------------------------------ conversational driver
\* (example_agent.py)  A reply of the language model is a text; the text
\* named by a reply is a sequence of tokens: the opening and closing marker
\* of a function-call block, prose, a JSON object, a JSON value that is not
\* an object, or text that is not JSON.
Tok(k) == [k |-> k, hasName |-> FALSE, name |-> "", hasParams |-> FALSE, parameters |-> <<>>]
Open == Tok("open")
Close == Tok("close")
Prose == Tok("prose")
Garbage == Tok("garbage")
Scalar == Tok("scalar")
Object(name, parameters) ==
    [k |-> "object", hasName |-> TRUE, name |-> name, hasParams |-> TRUE, parameters |-> parameters]
BareObject == [Tok("object") EXCEPT !.k = "object"]

SiteCall == Object("get_site_data", [site_code |-> Str(<<"A">>)])
SitesCall == Object("get_discharge_measurements", [sites |-> Str(<<"A", ",", "B">>)])
UnknownCall == Object("get_streamflow", [site_code |-> Str(<<"A">>)])

\* the first replies the model may give
FirstReplies ==
    {"plain", "one_call", "call_and_malformed", "only_malformed", "two_calls",
     "scalar_then_call", "unclosed", "no_name"}

\* the second replies the model may give
SecondReplies == {"answer", "answer_with_call"}

\* the text of a reply
TokensOf(reply) ==
    CASE reply = "plain" -> <<Prose>>
      [] reply = "one_call" -> <<Prose, Open, SiteCall, Close>>
      [] reply = "call_and_malformed" -> <<Open, SiteCall, Close, Open, Garbage, Close>>
      [] reply = "only_malformed" -> <<Open, Garbage, Close, Prose>>
      [] reply = "two_calls" -> <<Open, UnknownCall, Close, Prose, Open, SitesCall, Close>>
      [] reply = "scalar_then_call" -> <<Open, Scalar, Close, Open, SiteCall, Close>>
      [] reply = "unclosed" -> <<Open, SiteCall, Prose>>
      [] reply = "no_name" -> <<Open, Open, Close, Open, BareObject, Close>>
      [] reply = "answer" -> <<Prose>>
      [] reply = "answer_with_call" -> <<Prose, Open, SiteCall, Close>>
      [] OTHER -> <<>>

\* the position of the first token of kind k at or after i, 0 if none
RECURSIVE FindTok(_, _, _)
FindTok(toks, k, i) ==
    IF i > Len(toks) THEN 0
    ELSE IF toks[i].k = k THEN i
    ELSE FindTok(toks, k, i + 1)

\* re.findall(r'<function_call>(.*?)</function_call>', text, re.DOTALL):
\* the contents of the blocks, leftmost first, each ending at the first
\* closing marker after its opening marker
RECURSIVE FindAll(_, _)
FindAll(toks, i) ==
    LET o == FindTok(toks, "open", i)
        c == IF o = 0 THEN 0 ELSE FindTok(toks, "close", o + 1)
    IN IF o = 0 \/ c = 0 THEN <<>>
       ELSE <<SubSeq(toks, o + 1, c - 1)>> \o FindAll(toks, c + 1)

\* json.loads(match.strip()) succeeds: the content is one JSON value
JsonLoads(content) == Len(content) = 1 /\ content[1].k \in {"object", "scalar"}

\* the loop of _extract_function_calls: the parsed values, parse failures skipped
RECURSIVE ParsedOf(_)
ParsedOf(matches) ==
    IF matches = <<>> THEN <<>>
    ELSE IF JsonLoads(Head(matches)) THEN <<Head(matches)[1]>> \o ParsedOf(Tail(matches))
    ELSE ParsedOf(Tail(matches))

extract_function_calls(reply) == ParsedOf(FindAll(TokensOf(reply), 1))

\* call.get("name") and call.get("parameters", {})
NameOf(call) == IF call.hasName THEN call.name ELSE "None"
ParamsIn(call) == IF call.hasParams THEN call.parameters ELSE <<>>

\* a history that keeps only the newest message
AppendMessage_replace(msgs, role, content) == <<[role |-> role, content |-> content]>>

\* self.messages.append({"role": role, "content": content})
AppendMessage(msgs, role, content) == Append(msgs, [role |-> role, content |-> content])

Queries == {"Q1", "Q2"}

\* what the service may do during a call made by the driver
AgentOutcomes ==
    {[kind |-> "table", table |-> EmptyDF, err |-> ""],
     [kind |-> "table", table |-> [columns |-> <<"value">>, values |-> <<<<"x">>>>], err |-> ""],
     [kind |-> "raise", table |-> EmptyDF, err |-> "timed out"]}

\* the number of process_query calls of one driver instance
MaxQueries == 2

\* ------------------------------------------------ tool-serving variant
\* (mcp_dataretrieval.py)  The operations take their parameters as keyword
\* arguments: a call that leaves out an argument without default raises
\* TypeError before the body runs.
MissingArgument(calls) == Raised("TypeError", calls)

Given(args, required) == required \subseteq DOMAIN args

\* _format_dataframe_result: the table is cleaned, the status is "success"
format_dataframe_result(df, message) == SuccessResponse(sanitize(df), message)

\* if not df.empty: return self._format_dataframe_result(df, okMsg)
\* else: return {"status": "error", "message": emptyMsg}
tool_checked_result(df, okMsg, emptyMsg) ==
    IF ~IsEmpty(df) THEN format_dataframe_result(df, okMsg) ELSE ErrorResponse(emptyMsg)

tool_get_site_data(args, out) ==
    LET site_code == Get(args, "site_code")
        calls == <<SvcCall("get_record", [sites |-> site_code, service |-> SiteService])>>
    IN IF ~Given(args, {"site_code"})
       THEN MissingArgument(<<>>)
       ELSE TryExcept(out, calls,
                tool_checked_result(out.table,
                    <<"Successfully retrieved data for site ">> \o Render(site_code),
                    <<"No data found for site ">> \o Render(site_code)),
                <<"Error retrieving site data: ">>)

tool_get_daily_values(args, out) ==
    LET site_code == Get(args, "site_code")
        calls == <<SvcCall("get_dv", [sites |-> site_code,
                                      parameterCd |-> Get(args, "parameter_code"),
                                      statCd |-> Get(args, "statCd"),
                                      start |-> Get(args, "start_date"),
                                      end |-> Get(args, "end_date")])>>
    IN IF ~Given(args, {"site_code"})
       THEN MissingArgument(<<>>)
       ELSE TryExcept(out, calls,
                tool_checked_result(out.table,
                    <<"Successfully retrieved daily values for site ">> \o Render(site_code),
                    <<"No daily values found for the specified parameters">>),
                <<"Error retrieving daily values: ">>)

tool_get_instantaneous_values(args, out) ==
    LET site_code == Get(args, "site_code")
        calls == <<SvcCall("get_iv", [sites |-> site_code,
                                      parameterCd |-> Get(args, "parameter_code"),
                                      start |-> Get(args, "start_date"),
                                      end |-> Get(args, "end_date")])>>
    IN IF ~Given(args, {"site_code", "parameter_code"})
       THEN MissingArgument(<<>>)
       ELSE TryExcept(out, calls,
                tool_checked_result(out.table,
                    <<"Successfully retrieved instantaneous values for site ">> \o Render(site_code),
                    <<"No instantaneous values found for the specified parameters">>),
                <<"Error retrieving instantaneous values: ">>)

\* the shared body of the three operations on sites: the split happens
\* inside the try block, the count in the message is len(df)
tool_sites_operation(args, out, fn, noun) ==
    LET sites_list == split_sites(args)
        calls == <<SvcCall(fn, [sites |-> sites_list,
                                start |-> Get(args, "start"),
                                end |-> Get(args, "end")])>>
    IN IF ~Given(args, {"sites"})
       THEN MissingArgument(<<>>)
       ELSE TryExcept(out, calls,
                format_dataframe_result(out.table,
                    <<"Retrieved ">> \o NumTok(NRows(out.table)) \o <<noun>>),
                <<>>)

tool_get_discharge_measurements(args, out) ==
    tool_sites_operation(args, out, "get_discharge_measurements", " discharge measurements")

tool_get_discharge_peaks(args, out) ==
    tool_sites_operation(args, out, "get_discharge_peaks", " discharge peaks")

tool_get_gwlevels(args, out) ==
    tool_sites_operation(args, out, "get_gwlevels", " groundwater level records")

tool_get_ratings(args, out) ==
    LET site == Get(args, "site")
        file_type == GetOr(args, "file_type", BaseFileType)
    IN IF ~Given(args, {"site"})
       THEN MissingArgument(<<>>)
       ELSE TryExcept(out, <<SvcCall("get_ratings", [site |-> site, file_type |-> file_type])>>,
                format_dataframe_result(out.table,
                    <<"Retrieved ">> \o NumTok(NRows(out.table))
                        \o <<" rating records for site ">> \o Render(site)),
                <<>>)

\* the filters that are given and truthy are the ones handed on
TruthyFilters(args) ==
    [k \in {k \in DOMAIN args \cap {"stateCd", "siteType", "county", "huc"} : Truthy(args[k])}
        |-> args[k]]

tool_what_sites(args, out) ==
    TryExcept(out, <<SvcCall("what_sites", TruthyFilters(args))>>,
        format_dataframe_result(out.table,
            <<"Found ">> \o NumTok(NRows(out.table)) \o <<" sites matching the criteria">>),
        <<>>)

\* the registry lacking its last entry
InitTools_without_what_sites ==
    <<[name |-> "get_site_data", method |-> "get_site_data"],
      [name |-> "get_daily_values", method |-> "get_daily_values"],
      [name |-> "get_instantaneous_values", method |-> "get_instantaneous_values"],
      [name |-> "get_discharge_measurements", method |-> "get_discharge_measurements"],
      [name |-> "get_discharge_peaks", method |-> "get_discharge_peaks"],
      [name |-> "get_gwlevels", method |-> "get_gwlevels"],
      [name |-> "get_ratings", method |-> "get_ratings"]>>

\* the tools dict handed to the server: name -> bound method, in insertion order
InitTools ==
    <<[name |-> "get_site_data", method |-> "get_site_data"],
      [name |-> "get_daily_values", method |-> "get_daily_values"],
      [name |-> "get_instantaneous_values", method |-> "get_instantaneous_values"],
      [name |-> "get_discharge_measurements", method |-> "get_discharge_measurements"],
      [name |-> "get_discharge_peaks", method |-> "get_discharge_peaks"],
      [name |-> "get_gwlevels", method |-> "get_gwlevels"],
      [name |-> "get_ratings", method |-> "get_ratings"],
      [name |-> "what_sites", method |-> "what_sites"]>>

\* the bound method called with the keyword arguments args
ToolInvoke(method, args, out) ==
    CASE method = "get_site_data" -> tool_get_site_data(args, out)
      [] method = "get_daily_values" -> tool_get_daily_values(args, out)
      [] method = "get_instantaneous_values" -> tool_get_instantaneous_values(args, out)
      [] method = "get_discharge_measurements" -> tool_get_discharge_measurements(args, out)
      [] method = "get_discharge_peaks" -> tool_get_discharge_peaks(args, out)
      [] method = "get_gwlevels" -> tool_get_gwlevels(args, out)
      [] method = "get_ratings" -> tool_get_ratings(args, out)
      [] method = "what_sites" -> tool_what_sites(args, out)

\* ---------------------------------------------------------------- state
\* functions: the dispatch table of the wrapper instance
\* phase: "idle" (no call in progress), "waiting" (an operation has reached
\*   its service call), "returned" (call_function has handed back its result)
\* fname, params: the arguments of the call in progress
\* outcome: what the service did in this call
\* ret, raised: the envelope returned, or whether an exception escaped
\* svcCalls: the service invocations of this call, with their arguments
\* opCalls: the operations invoked by this call
VARIABLES functions, phase, fname, params, outcome, ret, raised, svcCalls, opCalls

\* messages: the conversation history of the driver instance
\* agentPhase: "idle", "llm1" (first model call in progress), "dispatching"
\*   (the loop over the extracted calls), "llm2" (second model call in
\*   progress), "returned", "raised" (an exception left process_query)
\* nQueries: the process_query calls started so far
\* query, startLen: the query in progress, the history length at its start
\* firstReply: the first reply of the model, "" before it arrives
\* pending: the extracted calls not yet dispatched
\* dispatched: the (name, params) given to call_function, in order
\* results: the entries appended to results, in order
\* llmCalls: the model calls made for the query in progress
\* retval: the string process_query returned
VARIABLES messages, agentPhase, nQueries, query, startLen, firstReply, pending,
          dispatched, results, llmCalls, retval

\* tools: the registry of the tool-serving process
\* toolPhase, tname, targs, toutcome, tret, traised: as phase, fname, params,
\*   outcome, ret and raised, for a call of a tool of the variant
VARIABLES tools, toolPhase, tname, targs, toutcome, tret, traised

dispVars == <<functions, phase, fname, params, outcome, ret, raised, svcCalls, opCalls>>
agentVars == <<messages, agentPhase, nQueries, query, startLen, firstReply, pending,
               dispatched, results, llmCalls, retval>>
toolVars == <<tools, toolPhase, tname, targs, toutcome, tret, traised>>
vars == <<dispVars, agentVars, toolVars>>

\* the outcome recorded when the service was not called
NotCalled == [kind |-> "none", table |-> EmptyDF, err |-> ""]
NoEnvelope == format_response("", Nothing, Nothing, Nothing)

Init ==
    /\ functions = InitFunctions
    /\ phase = "idle"
    /\ fname = ""
    /\ params = <<>>
    /\ outcome = NotCalled
    /\ ret = NoEnvelope
    /\ raised = FALSE
    /\ svcCalls = <<>>
    /\ opCalls = <<>>
    /\ messages = <<>>
    /\ agentPhase = "idle"
    /\ nQueries = 0
    /\ query = ""
    /\ startLen = 0
    /\ firstReply = ""
    /\ pending = <<>>
    /\ dispatched = <<>>
    /\ results = <<>>
    /\ llmCalls = 0
    /\ retval = ""
    /\ tools = InitTools
    /\ toolPhase = "idle"
    /\ tname = ""
    /\ targs = <<>>
    /\ toutcome = NotCalled
    /\ tret = NoEnvelope
    /\ traised = FALSE

\* call_function(fn, p) runs up to the operation's service call; a call
\* that does not reach the service returns at once
Begin(fn, p) ==
    LET r == call_function(functions, fn, p, NotCalled)
    IN /\ phase = "idle"
       /\ fname' = fn
       /\ params' = p
       /\ opCalls' = r.ops
       /\ svcCalls' = r.run.svc
       /\ outcome' = NotCalled
       /\ IF r.run.svc = <<>>
          THEN /\ phase' = "returned"
               /\ ret' = r.run.ret
               /\ raised' = r.run.raised
          ELSE /\ phase' = "waiting"
               /\ ret' = NoEnvelope
               /\ raised' = FALSE
       /\ UNCHANGED functions
       /\ UNCHANGED <<agentVars, toolVars>>

CallRegistered ==
    \E fn \in KeySet(InitFunctions) : \E p \in ParamsOf(fn) : Begin(fn, p)

CallUnknown ==
    \E fn \in UnknownNames : \E p \in ParamsOf(fn) : Begin(fn, p)

\* the service returns a table or raises, and the operation runs to its return
ServiceResponds ==
    \E out \in Outcomes :
        LET r == call_function(functions, fname, params, out)
        IN /\ phase = "waiting"
           /\ phase' = "returned"
           /\ outcome' = out
           /\ ret' = r.run.ret
           /\ raised' = r.run.raised
           /\ UNCHANGED <<functions, fname, params, svcCalls, opCalls>>
           /\ UNCHANGED <<agentVars, toolVars>>

\* the caller takes the envelope; nothing of the call is kept
Finish ==
    /\ phase = "returned"
    /\ phase' = "idle"
    /\ fname' = ""
    /\ params' = <<>>
    /\ outcome' = NotCalled
    /\ ret' = NoEnvelope
    /\ raised' = FALSE
    /\ svcCalls' = <<>>
    /\ opCalls' = <<>>
    /\ UNCHANGED functions
    /\ UNCHANGED <<agentVars, toolVars>>

Next == CallRegistered \/ CallUnknown \/ ServiceResponds \/ Finish

Spec == Init /\ [][Next]_vars

\* --------------------------------------------------- driver: process_query
\* process_query(q) up to its first model call: the user message is appended
StartQuery ==
    \E q \in Queries :
        /\ agentPhase \in {"idle", "returned", "raised"}
        /\ nQueries < MaxQueries
        /\ nQueries' = nQueries + 1
        /\ query' = q
        /\ startLen' = Len(messages)
        /\ messages' = AppendMessage(messages, "user", q)
        /\ agentPhase' = "llm1"
        /\ firstReply' = ""
        /\ pending' = <<>>
        /\ dispatched' = <<>>
        /\ results' = <<>>
        /\ llmCalls' = 0
        /\ retval' = ""
        /\ UNCHANGED <<dispVars, toolVars>>

\* the first model call returns: the calls are extracted; with none, the
\* reply is appended and returned
FirstReply ==
    \E r \in FirstReplies :
        LET calls == extract_function_calls(r)
        IN /\ agentPhase = "llm1"
           /\ llmCalls' = llmCalls + 1
           /\ firstReply' = r
           /\ IF calls = <<>>
              THEN /\ messages' = AppendMessage(messages, "assistant", r)
                   /\ retval' = r
                   /\ agentPhase' = "returned"
                   /\ pending' = <<>>
              ELSE /\ pending' = calls
                   /\ agentPhase' = "dispatching"
                   /\ UNCHANGED <<messages, retval>>
           /\ UNCHANGED <<nQueries, query, startLen, dispatched, results>>
           /\ UNCHANGED <<dispVars, toolVars>>

\* a raise that takes the user message back out of the history
ModelRaises_rollback ==
    /\ agentPhase \in {"llm1", "llm2"}
    /\ llmCalls' = llmCalls + 1
    /\ agentPhase' = "raised"
    /\ messages' = SubSeq(messages, 1, startLen)
    /\ UNCHANGED <<nQueries, query, startLen, firstReply, pending,
                   dispatched, results, retval>>
    /\ UNCHANGED <<dispVars, toolVars>>

\* a model call raises: the exception leaves process_query
ModelRaises ==
    /\ agentPhase \in {"llm1", "llm2"}
    /\ llmCalls' = llmCalls + 1
    /\ agentPhase' = "raised"
    /\ UNCHANGED <<messages, nQueries, query, startLen, firstReply, pending,
                   dispatched, results, retval>>
    /\ UNCHANGED <<dispVars, toolVars>>

\* one turn of the loop over function_calls for a JSON object: the call is
\* dispatched and its envelope appended to results
Dispatch ==
    \E out \in AgentOutcomes :
        LET call == Head(pending)
            r == call_function(functions, NameOf(call), ParamsIn(call), out)
        IN /\ agentPhase = "dispatching"
           /\ call.k = "object"
           /\ dispatched' = Append(dispatched, [name |-> NameOf(call), params |-> ParamsIn(call)])
           /\ results' = Append(results, [function |-> NameOf(call), result |-> r.run.ret])
           /\ pending' = Tail(pending)
           /\ agentPhase' = IF Tail(pending) = <<>> THEN "llm2" ELSE "dispatching"
           /\ UNCHANGED <<messages, nQueries, query, startLen, firstReply, llmCalls, retval>>
           /\ UNCHANGED <<dispVars, toolVars>>

\* one turn of the loop for a JSON value that is not an object: call.get
\* raises AttributeError, which leaves process_query
DispatchFails ==
    /\ agentPhase = "dispatching"
    /\ Head(pending).k # "object"
    /\ agentPhase' = "raised"
    /\ UNCHANGED <<messages, nQueries, query, startLen, firstReply, pending,
                   dispatched, results, llmCalls, retval>>
    /\ UNCHANGED <<dispVars, toolVars>>

\* the second model call returns: its reply is appended and returned
SecondReply ==
    \E r \in SecondReplies :
        /\ agentPhase = "llm2"
        /\ llmCalls' = llmCalls + 1
        /\ messages' = AppendMessage(messages, "assistant", r)
        /\ retval' = r
        /\ agentPhase' = "returned"
        /\ UNCHANGED <<nQueries, query, startLen, firstReply, pending, dispatched, results>>
        /\ UNCHANGED <<dispVars, toolVars>>

NextAgent ==
    StartQuery \/ FirstReply \/ ModelRaises \/ Dispatch \/ DispatchFails \/ SecondReply

SpecAgent == Init /\ [][NextAgent]_vars

\* ------------------------------------------------ variant: a tool call
\* a registered tool is called with keyword arguments and runs up to its
\* service call; a call that lacks an argument raises at once
ToolCall ==
    \E fn \in KeySet(tools) : \E a \in ParamsOf(fn) :
        LET r == ToolInvoke(Lookup(tools, fn), a, NotCalled)
        IN /\ toolPhase = "idle"
           /\ tname' = fn
           /\ targs' = a
           /\ toutcome' = NotCalled
           /\ IF r.svc = <<>>
              THEN /\ toolPhase' = "returned"
                   /\ tret' = r.ret
                   /\ traised' = r.raised
              ELSE /\ toolPhase' = "waiting"
                   /\ tret' = NoEnvelope
                   /\ traised' = FALSE
           /\ UNCHANGED tools
           /\ UNCHANGED <<dispVars, agentVars>>

\* the service returns a table or raises, and the tool runs to its return
ToolResponds ==
    \E out \in Outcomes :
        LET r == ToolInvoke(Lookup(tools, tname), targs, out)
        IN /\ toolPhase = "waiting"
           /\ toolPhase' = "returned"
           /\ toutcome' = out
           /\ tret' = r.ret
           /\ traised' = r.raised
           /\ UNCHANGED <<tools, tname, targs>>
           /\ UNCHANGED <<dispVars, agentVars>>

\* the caller takes the result; nothing of the call is kept
ToolFinish ==
    /\ toolPhase = "returned"
    /\ toolPhase' = "idle"
    /\ tname' = ""
    /\ targs' = <<>>
    /\ toutcome' = NotCalled
    /\ tret' = NoEnvelope
    /\ traised' = FALSE
    /\ UNCHANGED tools
    /\ UNCHANGED <<dispVars, agentVars>>

NextTools == ToolCall \/ ToolResponds \/ ToolFinish

SpecTools == Init /\ [][NextTools]_vars

\* ------------------------------------------------------------ properties
HasReturned == phase = "returned"
Registered == fname \in KeySet(functions)
GotTable == outcome.kind = "table"
GotRaise == outcome.kind = "raise"

\* tok is one of the pieces of the message
Mentions(msg, tok) == \E i \in 1..Len(msg) : msg[i] = tok

\* the texts with which an operation refuses a call for a missing parameter
RequiredTexts ==
    {<<"Site code is required">>, <<"site_code is required">>,
     <<"site_code and parameter_code are both required">>,
     <<"Sites parameter is required">>, <<"Site parameter is required">>,
     <<"Parameter code is required">>, <<"At least one of the parameters is required">>}

\* the operations that test the cleaned table for emptiness
EmptyChecking == {"get_site_data", "get_daily_values", "get_instantaneous_values"}

\* C1: a call with a name that is not registered returns status "error",
\* its message lists every registered name, and no operation and no
\* service function is invoked.
C1_UnknownNameIsError ==
    (HasReturned /\ ~Registered) =>
        /\ ret.status = "error"
        /\ ~raised
        /\ \A n \in KeySet(functions) : Mentions(ret.message, n)
        /\ opCalls = <<>>
        /\ svcCalls = <<>>

C1_Witness ==
    /\ HasReturned /\ fname = "get_streamflow" /\ params # <<>>
    /\ ret.status = "error" /\ Mentions(ret.message, "get_water_use")

\* the call lacks a parameter the named operation requires
LacksRequired ==
    \/ fname \in {"get_site_data", "get_daily_values"} /\ "site_code" \notin DOMAIN params
    \/ fname = "get_instantaneous_values" /\ {"site_code", "parameter_code"} \ DOMAIN params # {}
    \/ fname \in {"get_discharge_measurements", "get_discharge_peaks", "get_gwlevels"}
       /\ "sites" \notin DOMAIN params
    \/ fname = "get_ratings" /\ "site" \notin DOMAIN params
    \/ fname = "get_pmcodes" /\ "parameterCd" \notin DOMAIN params
    \/ fname = "get_water_use" /\ {"years", "state", "counties", "categories"} \cap DOMAIN params = {}

\* C2: a call that lacks the parameter its operation requires returns status
\* "error" with a message that states the requirement, and the service is
\* never called.
C2_MissingRequiredIsError ==
    (HasReturned /\ LacksRequired) =>
        /\ ret.status = "error"
        /\ ret.message \in RequiredTexts
        /\ svcCalls = <<>>
        /\ outcome = NotCalled

C2_Witness ==
    /\ HasReturned /\ fname = "get_instantaneous_values"
    /\ DOMAIN params = {"site_code"} /\ Truthy(params["site_code"])
    /\ ret.status = "error" /\ svcCalls = <<>>

C4_Original ==
    (HasReturned /\ GotRaise) =>
        /\ ret.status = "error"
        /\ ret.message = <<outcome.err>>
        /\ ret.keys \cap {"column_names", "data"} = {}

\* C4 amended: when the service call raises, the envelope has status
\* "error" and neither column_names nor data; its message ends with the text
\* of the raised error, and is equal to it for every operation but site
\* lookup, daily values and instantaneous values, which put a fixed
\* "Error retrieving ...: " before it.
C4_RaiseIsError ==
    (HasReturned /\ GotRaise) =>
        /\ ret.status = "error"
        /\ ret.keys \cap {"column_names", "data"} = {}
        /\ Len(ret.message) >= 1
        /\ ret.message[Len(ret.message)] = outcome.err
        /\ fname \notin EmptyChecking => ret.message = <<outcome.err>>
        /\ fname \in EmptyChecking => Len(ret.message) = 2 /\ ret.message[1] \notin ErrTexts

C4_Witness ==
    /\ HasReturned /\ GotRaise /\ fname = "get_site_data"
    /\ ret.status = "error" /\ ret.message = <<"Error retrieving site data: ", "timed out">>

\* column j of a "success" envelope has a value satisfying P
ColumnsOf(env) == 1..Len(env.column_names)
RowsIn(env) == 1..Len(env.data)

\* C5 as stated: every column that survives the sanitizer holds a value that
\* is neither missing nor the sentinel.
C5_Original ==
    (HasReturned /\ ret.status = "success") =>
        \A j \in ColumnsOf(ret) : \E i \in RowsIn(ret) : ret.data[i][j] \notin {NaN, Sentinel}

\* C5 amended: every column that survives the sanitizer holds a value that
\* is not missing and a value that is not the sentinel (they may be two
\* different values: a column of missing values and sentinels survives).
C5_SurvivorsNotUniform ==
    (HasReturned /\ ret.status = "success") =>
        \A j \in ColumnsOf(ret) :
            /\ \E i \in RowsIn(ret) : ret.data[i][j] # NaN
            /\ \E i \in RowsIn(ret) : ret.data[i][j] # Sentinel

C5_Witness ==
    /\ HasReturned /\ ret.status = "success" /\ fname = "get_gwlevels"
    /\ NCols(outcome.table) = 2 /\ Len(ret.column_names) = 1
    /\ \E i \in RowsIn(ret) : ret.data[i][1] = Sentinel

\* the number of descriptors the catalog holds for a name
Descriptors(n) ==
    Cardinality({i \in 1..Len(get_mcp_functions) : get_mcp_functions[i].name = n})

\* C6 as stated: in every reachable state the dispatchable names are those
\* built at construction, and every dispatchable name has exactly one
\* descriptor in the catalog.
C6_Original ==
    /\ Keys(functions) = Keys(InitFunctions)
    /\ \A n \in KeySet(functions) : Descriptors(n) = 1

\* column j of table df is neither all missing nor all sentinel
Survives(df, j) ==
    /\ \E i \in 1..NRows(df) : df.values[i][j] # NaN
    /\ \E i \in 1..NRows(df) : df.values[i][j] # Sentinel

SomeSurvivor(df) == \E j \in 1..NCols(df) : Survives(df, j)

Pos(cs, x) == CHOOSE i \in 1..Len(cs) : cs[i] = x

\* the columns of the service's table that the operation fn keeps
Surviving(fn, df) ==
    {j \in 1..NCols(df) :
        /\ Survives(df, j)
        /\ fn = "get_water_use" => df.columns[j] \notin {"state_cd", "county_cd"}}

\* C8: in every "success" envelope each row of data is as long as
\* column_names, and column_names lists exactly the surviving columns of the
\* service's table, in their original order.
C8_ColumnsMatchRows ==
    (HasReturned /\ ret.status = "success") =>
        LET t == outcome.table
            surv == Surviving(fname, t)
        IN /\ \A i \in RowsIn(ret) : Len(ret.data[i]) = Len(ret.column_names)
           /\ {ret.column_names[k] : k \in ColumnsOf(ret)} = {t.columns[j] : j \in surv}
           /\ Len(ret.column_names) = Cardinality(surv)
           /\ \A a, b \in ColumnsOf(ret) :
                a < b => Pos(t.columns, ret.column_names[a]) < Pos(t.columns, ret.column_names[b])

C8_Witness ==
    /\ HasReturned /\ ret.status = "success" /\ fname = "get_pmcodes"
    /\ Len(ret.column_names) = 2 /\ Len(ret.data) = 2
    /\ ret.column_names = outcome.table.columns

\* C9: a call with a registered name never raises: the envelope has status
\* "success" or "error", and an exception raised by the service call is
\* returned as status "error".
C9_NeverRaises ==
    (HasReturned /\ Registered) =>
        /\ ~raised
        /\ ret.status \in {"success", "error"}
        /\ GotRaise => ret.status = "error"

C9_Witness ==
    /\ HasReturned /\ fname = "get_record" /\ GotRaise
    /\ ~raised /\ ret.status = "error"

\* C10: for a registered name call_function invokes the operation of that
\* name exactly once and returns its envelope unchanged.
C10_ReturnsOperationEnvelope ==
    (HasReturned /\ Registered) =>
        /\ opCalls = <<fname>>
        /\ ret = Invoke(fname, params, outcome).ret

C10_Witness ==
    /\ HasReturned /\ fname = "get_ratings" /\ opCalls = <<"get_ratings">>
    /\ ret.status = "success" /\ Len(ret.data) = 1

\* the operations that take one or more site identifiers
SitesOps == {"get_discharge_measurements", "get_discharge_peaks", "get_gwlevels"}

\* the call gives key k a str value
GivesStr(k) == k \in DOMAIN params /\ params[k].t = "str"

\* v is the list of the pieces of the text cs between its commas, in order
IsSplitOf(v, cs) ==
    /\ v.t = "list"
    /\ JoinWith(v.l, ",") = cs
    /\ \A i \in 1..Len(v.l) : \A j \in 1..Len(v.l[i]) : v.l[i][j] # ","

\* C11: for discharge measurements, discharge peaks and groundwater levels
\* a str value of sites reaches the service as the ordered list of its
\* comma-separated pieces ("A,B" as ["A", "B"]), never as the raw string.
C11_SitesForwardedAsList ==
    (HasReturned /\ fname \in SitesOps /\ GivesStr("sites")) =>
        /\ Len(svcCalls) = 1
        /\ IsSplitOf(svcCalls[1].kwargs.sites, params["sites"].s)
        /\ svcCalls[1].kwargs.sites # params["sites"]
        /\ params["sites"].s = <<"A", ",", "B">> =>
               svcCalls[1].kwargs.sites = List(<<<<"A">>, <<"B">>>>)

C11_Witness ==
    /\ HasReturned /\ fname = "get_discharge_peaks"
    /\ GivesStr("sites") /\ params["sites"].s = <<"A", ",", "B">>
    /\ svcCalls[1].fn = "get_discharge_peaks"
    /\ svcCalls[1].kwargs.sites.l = <<<<"A">>, <<"B">>>>

\* C12 as stated: for statistics with a str sites value and for water use
\* with a non-empty str years value, the service is invoked with the list of
\* the comma-separated pieces, not with the raw string.
C12_Original ==
    /\ (HasReturned /\ fname = "get_stats" /\ GivesStr("sites")) =>
           /\ Len(svcCalls) = 1
           /\ IsSplitOf(svcCalls[1].kwargs["sites"], params["sites"].s)
    /\ (HasReturned /\ fname = "get_water_use" /\ GivesStr("years") /\ Truthy(params["years"])) =>
           /\ Len(svcCalls) = 1
           /\ IsSplitOf(svcCalls[1].kwargs["years"], params["years"].s)

\* C13: every envelope call_function returns has status "success" or
\* "error" and a message; column_names and data are present only with
\* status "success", and an "error" envelope has neither.
C13_EnvelopeShape ==
    HasReturned =>
        /\ ret.status \in {"success", "error"}
        /\ "message" \in ret.keys /\ ret.message # <<>>
        /\ ret.keys \subseteq {"status", "message", "column_names", "data"}
        /\ ret.keys \cap {"column_names", "data"} # {} => ret.status = "success"
        /\ ret.status = "error" => ret.keys = {"status", "message"}

C13_Witness ==
    /\ HasReturned /\ GotTable /\ ~IsEmpty(outcome.table)
    /\ ret.status = "error" /\ ret.keys = {"status", "message"}

\* C14: site lookup returns status "success" with non-empty data and a
\* message that contains the site identifier when the table is non-empty
\* after sanitation, and status "error" with the message that no data was
\* found for that identifier when the table is empty.
C14_SiteLookupScenarios ==
    (HasReturned /\ fname = "get_site_data" /\ GotTable /\ GivesStr("site_code")) =>
        LET id == params["site_code"].s
        IN /\ SomeSurvivor(outcome.table) =>
                /\ ret.status = "success"
                /\ ret.data # <<>> /\ \A i \in RowsIn(ret) : ret.data[i] # <<>>
                /\ SubSeq(ret.message, 2, Len(ret.message)) = id
           /\ ~SomeSurvivor(outcome.table) =>
                /\ ret.status = "error"
                /\ ret.message = <<"No data found for site ">> \o id

C14_Witness ==
    /\ HasReturned /\ fname = "get_site_data" /\ GotTable
    /\ NCols(outcome.table) = 2 /\ Len(ret.column_names) = 1
    /\ ret.status = "success" /\ ret.data # <<>>
    /\ ret.message = <<"Successfully retrieved data for site ", "A">>

\* ------------------------------------------------------ driver properties
\* the loop over the calls of the first reply is over
LoopOver == agentPhase \in {"llm2", "returned", "raised"} /\ firstReply # ""

\* the blocks of a reply whose content is well-formed JSON
IsJson(content) == JsonLoads(content)
WellFormedBlocks(reply) == SelectSeq(FindAll(TokensOf(reply), 1), IsJson)

\* the calls a reply requests: its well-formed blocks that hold an object
IsObject(call) == call.k = "object"
Requested(reply) == SelectSeq(extract_function_calls(reply), IsObject)

\* C15 (as stated): once the loop of process_query is over, the dispatcher
\* has been invoked once per function-call block of the first reply whose
\* content is well-formed JSON.
C15_Original ==
    LoopOver => Len(dispatched) = Len(WellFormedBlocks(firstReply))

\* C16 (as stated): when process_query has ended, the model was called
\* once if the first reply yielded no function call and twice otherwise.
C16_Original ==
    (agentPhase \in {"returned", "raised"} /\ firstReply # "")
        => llmCalls = (IF extract_function_calls(firstReply) = <<>> THEN 1 ELSE 2)

\* C17 (as stated): once the loop of process_query is over, every call the
\* first reply requested has been dispatched, in the order of the reply,
\* with its name and parameters.
C17_Original ==
    LoopOver =>
        /\ Len(dispatched) = Len(Requested(firstReply))
        /\ \A i \in 1..Len(Requested(firstReply)) :
              /\ i <= Len(dispatched)
              /\ dispatched[i].name = NameOf(Requested(firstReply)[i])

IsPrefix(s, t) == Len(s) <= Len(t) /\ SubSeq(t, 1, Len(s)) = s

\* C18: the history only grows by appending, and a process_query call that
\* returns has extended the history it found by the user message holding the
\* query followed by one assistant message holding the returned string.
C18_HistoryAppendOnly ==
    [][/\ IsPrefix(messages, messages')
       /\ (agentPhase # "returned" /\ agentPhase' = "returned") =>
             /\ Len(messages') = startLen' + 2
             /\ messages'[startLen' + 1] = [role |-> "user", content |-> query']
             /\ messages'[startLen' + 2] = [role |-> "assistant", content |-> retval']
             /\ SubSeq(messages', 1, startLen') = SubSeq(messages, 1, startLen')
             /\ startLen' = startLen]_vars

\* a second query has returned after function calls: four messages
C18_Witness ==
    /\ agentPhase = "returned"
    /\ nQueries = 2
    /\ llmCalls = 2
    /\ Len(messages) = 4
    /\ Len(dispatched) > 0

\* ----------------------------------------------------- variant properties
NotInTools == {"get_info", "get_pmcodes", "get_record", "get_stats", "get_water_use"}

\* C19 (as stated): the tool names of the variant are the names of the
\* dispatcher's function table.
C19_Original == KeySet(tools) = KeySet(functions)

\* C19: every tool name of the variant is a name of the dispatcher's
\* function table, and the dispatcher's names the variant does not register
\* are get_info, get_pmcodes, get_record, get_stats and get_water_use.
C19_ToolsAreSubset ==
    /\ KeySet(tools) \subseteq KeySet(functions)
    /\ KeySet(functions) \ KeySet(tools) = NotInTools

\* a registered tool has answered a call with a success envelope
C19_Witness ==
    /\ toolPhase = "returned"
    /\ tname \in KeySet(tools) \cap KeySet(functions)
    /\ ~traised
    /\ tret.status = "success"

\* C20 (as stated): a tool of the variant hands back the envelope the
\* dispatcher returns for the same name, parameters and service outcome.
C20_Original ==
    toolPhase = "returned" =>
        LET r == call_function(functions, tname, targs, toutcome).run
        IN /\ traised = r.raised
           /\ tret = r.ret

\* ------------------------------------------------- catalog and operations
\* the 'required' list of the descriptor of n, as a set
RequiredOf(n) ==
    LET d == get_mcp_functions[CHOOSE i \in 1..Len(get_mcp_functions) : get_mcp_functions[i].name = n]
    IN {d.required[i] : i \in 1..Len(d.required)}

\* the call gives a value to every parameter its descriptor requires
SuppliesRequired ==
    \A k \in RequiredOf(fname) : k \in DOMAIN params /\ Truthy(params[k])

\* the operation refused the call for a missing parameter
Rejected == ret.status = "error" /\ ret.message \in RequiredTexts /\ svcCalls = <<>>

\* C21 (as stated): a call that supplies every parameter its descriptor
\* lists as required is not refused for a missing parameter.
C21_Original ==
    (HasReturned /\ Descriptors(fname) = 1 /\ SuppliesRequired) => ~Rejected

\* ------------------------------------------------------------- sanitizer
\* s is t with some columns taken out: same rows in the same order, the
\* columns of s are columns of t in the order of t, with the values of t
OnlyColumnsRemoved(s, t) ==
    /\ NRows(s) = NRows(t)
    /\ \A j \in 1..NCols(s) : \E k \in 1..NCols(t) : t.columns[k] = s.columns[j]
    /\ \A j, k \in 1..NCols(s) : j < k => Pos(t.columns, s.columns[j]) < Pos(t.columns, s.columns[k])
    /\ \A i \in 1..NRows(s) : \A j \in 1..NCols(s) :
          s.values[i][j] = t.values[i][Pos(t.columns, s.columns[j])]

\* C22: sanitizing the table the service returned only removes columns (row
\* count, row order, names and order of the surviving columns and the
\* values of their cells are kept), and a "success" envelope of an
\* operation other than water use carries the sanitized table.
C22_SanitizerOnlyRemovesColumns ==
    (HasReturned /\ GotTable) =>
        LET s == sanitize(outcome.table)
        IN /\ OnlyColumnsRemoved(s, outcome.table)
           /\ (ret.status = "success" /\ fname # "get_water_use") =>
                 /\ ret.column_names = s.columns
                 /\ Len(ret.data) = NRows(outcome.table)
                 /\ \A i \in RowsIn(ret) : ret.data[i] = s.values[i]

\* a table of two different rows lost one of its two columns
C22_Witness ==
    /\ HasReturned /\ GotTable /\ ret.status = "success"
    /\ fname = "get_discharge_peaks"
    /\ NRows(outcome.table) = 2 /\ NCols(outcome.table) = 2
    /\ outcome.table.values[1][2] # outcome.table.values[2][2]
    /\ ret.column_names = <<outcome.table.columns[2]>>

\* C23: on the table the service returned, removing the all-missing
\* columns and then the all-sentinel columns gives the same table as the
\* opposite order, both give the columns that pass the two tests on the
\* original table, and sanitizing the sanitized table changes nothing.
C23_RemovalsCommuteAndIdempotent ==
    (HasReturned /\ GotTable) =>
        LET t == outcome.table
            perColumn == SelectCols(t, {j \in 1..NCols(t) : Survives(t, j)})
        IN /\ drop_sentinel(dropna_all(t)) = dropna_all(drop_sentinel(t))
           /\ sanitize(t) = perColumn
           /\ dropna_all(drop_sentinel(t)) = perColumn
           /\ sanitize(sanitize(t)) = sanitize(t)

\* a row with a missing value, a sentinel and a value: each removal takes
\* one column
C23_Witness ==
    /\ HasReturned /\ GotTable /\ fname = "get_gwlevels"
    /\ NRows(outcome.table) = 1 /\ NCols(outcome.table) = 3
    /\ outcome.table.values[1] = <<NaN, Sentinel, "x">>
    /\ NCols(dropna_all(outcome.table)) = 2
    /\ NCols(drop_sentinel(outcome.table)) = 2
    /\ Len(ret.column_names) = 1

\* ------------------------------------------------- forwarding to the service
Verbatim == {"what_sites", "get_record"}

\* C24: site search and generic record fetch refuse no parameter mapping,
\* the empty one included: the service is called exactly once, with the
\* caller's keys and values as keyword arguments.
C24_ForwardedVerbatim ==
    (HasReturned /\ fname \in Verbatim) =>
        /\ ~Rejected
        /\ Len(svcCalls) = 1
        /\ svcCalls[1].fn = fname
        /\ DOMAIN svcCalls[1].kwargs = DOMAIN params
        /\ \A k \in DOMAIN params : svcCalls[1].kwargs[k] = params[k]
        /\ outcome # NotCalled

\* site search with an empty-string filter, and the record fetch with the
\* empty mapping, have reached the service
C24_Witness ==
    /\ HasReturned /\ ret.status = "success" /\ Len(svcCalls) = 1
    /\ \/ fname = "get_record" /\ params = <<>>
       \/ /\ fname = "what_sites"
          /\ DOMAIN params = {"stateCd", "siteType"}
          /\ ~Truthy(params["stateCd"])

\* C25: when the rating-table operation reaches the service, it calls
\* get_ratings once with the caller's site as one value, and with the
\* caller's file_type if the mapping has that key and "base" if it has not.
C25_RatingsForwarding ==
    (HasReturned /\ fname = "get_ratings" /\ svcCalls # <<>>) =>
        /\ Len(svcCalls) = 1
        /\ svcCalls[1].fn = "get_ratings"
        /\ DOMAIN svcCalls[1].kwargs = {"site", "file_type"}
        /\ svcCalls[1].kwargs.site = params["site"]
        /\ svcCalls[1].kwargs.site.t = "str"
        /\ svcCalls[1].kwargs.file_type =
              (IF "file_type" \in DOMAIN params THEN params["file_type"]
               ELSE Str(<<"b", "a", "s", "e">>))

\* a site text holding a comma, without file_type, has reached the service
C25_Witness ==
    /\ HasReturned /\ fname = "get_ratings" /\ ret.status = "success"
    /\ DOMAIN params = {"site"}
    /\ params["site"] = Str(<<"A", ",", "B">>)
    /\ Len(svcCalls) = 1
    /\ svcCalls[1].kwargs.file_type = Str(<<"b", "a", "s", "e">>)

\* ---------------------------------------------------------------- water use
InternalColumns == {"state_cd", "county_cd"}

\* C26: when the service returns a table to the water-use operation, the
\* envelope has status "success" whether or not the table had the columns
\* state_cd and county_cd, column_names lists neither of them, and the
\* envelope carries the table sanitized after the two columns were dropped.
C26_WaterUseDropsInternalColumns ==
    (HasReturned /\ fname = "get_water_use" /\ GotTable) =>
        LET df == sanitize(drop_labels(outcome.table, InternalColumns))
        IN /\ ret.status = "success"
           /\ \A j \in ColumnsOf(ret) : ret.column_names[j] \notin InternalColumns
           /\ ret.column_names = df.columns
           /\ \A i \in RowsIn(ret) : ret.data[i] = df.values[i]

\* a table whose state_cd column holds a value comes back without it
C26_Witness ==
    /\ HasReturned /\ fname = "get_water_use" /\ GotTable
    /\ outcome.table.columns = <<"state_cd", "value">>
    /\ NRows(outcome.table) = 1
    /\ outcome.table.values[1] = <<"x", "x">>
    /\ ret.status = "success"
    /\ ret.column_names = <<"value">>

\* ------------------------------------------------------ presence of sites
\* sites is absent, None or an empty list
NoSites ==
    \/ "sites" \notin DOMAIN params
    \/ params["sites"].t = "none"
    \/ params["sites"].t = "list" /\ params["sites"].l = <<>>

Paired(msgs) ==
    /\ Len(msgs) % 2 = 0
    /\ \A i \in 1..Len(msgs) : msgs[i].role = (IF i % 2 = 1 THEN "user" ELSE "assistant")

BetweenCalls == agentPhase \in {"idle", "returned", "raised"}

\* C28: a model call that raises ends process_query with nothing returned
\* and leaves the history as it was at the raise, that is the history found
\* at the start of the call followed by the user message alone; and between
\* calls the history is a sequence of user/assistant pairs exactly when
\* every call so far has returned.
C28_RaiseKeepsUserMessage ==
    /\ [][(agentPhase \in {"llm1", "llm2"} /\ agentPhase' = "raised") =>
             /\ messages' = messages
             /\ Len(messages') = startLen' + 1
             /\ messages'[Len(messages')] = [role |-> "user", content |-> query']
             /\ retval' = ""]_vars
    /\ [](BetweenCalls => (Paired(messages) <=> Len(messages) = 2 * nQueries))
    /\ [](agentPhase = "raised" => messages[Len(messages)].role = "user")

\* the first call raised in the model, the second returned: two user
\* messages in a row
C28_Witness ==
    /\ agentPhase = "returned"
    /\ nQueries = 2
    /\ Len(messages) = 3
    /\ messages[1].role = "user"
    /\ messages[2].role = "user"
    /\ messages[3].role = "assistant"

====
